---- MODULE Spec2Model ----
(***************************************************************************)
(* Model of SAPODataOperator (src/main.py): construction-time validation   *)
(* of the request specification and the execute() pipeline                 *)
(*   resolve transport -> open session -> build request -> execute ->      *)
(*   shape output,                                                         *)
(* run against a deterministic stub of the transport collaborator          *)
(* (HttpHook) and of the protocol collaborator (pyodata.Client).           *)
(***************************************************************************)
EXTENDS Integers, Sequences, FiniteSets, TLC

VARIABLES
    status,         \* "none" before __init__, then "ok" or the exception type __init__ raised
    http_hook,      \* self.http_hook
    http_conn_id,   \* self.http_conn_id
    service_url,    \* self.service_url
    function,       \* self.function
    entity,         \* self.entity
    property,       \* self.property
    parameters,     \* self.parameters
    base_url,       \* base_url field of the HttpHook object self.http_hook refers to
    open_sessions,  \* sessions obtained from get_conn() and not yet closed
    backend,        \* the deterministic stub the collaborators are played by
    runs            \* one record per finished execute(), oldest first

vars == <<status, http_hook, http_conn_id, service_url, function, entity,
          property, parameters, base_url, open_sessions, backend, runs>>

-----------------------------------------------------------------------------
(* Bounds *)

MaxRuns == 2        \* number of execute() calls on the one task object
MaxEntities == 2    \* number of records the stub backend returns

-----------------------------------------------------------------------------
(* Python values *)

None == "<None>"
NotStr == "<int>"                   \* a truthy value that is not a str, e.g. 7
HookSupplied == "<HttpHook supplied>"   \* an HttpHook instance passed by the caller
HookBuilt == "<HttpHook built>"     \* the HttpHook instance execute() builds from http_conn_id
HookInvalid == "<str>"              \* a truthy object that is not an HttpHook and has no settable attributes
NoExc == "<no exception>"

\* bool(v) for the scalar values above
Truthy(v) == v \notin {None, ""}

\* isinstance(v, str)
IsStr(v) == v \notin {None, NotStr}

\* isinstance(v, HttpHook)
IsHttpHook(v) == v \in {HookSupplied, HookBuilt}

\* f"{v}"
Fmt(v) == IF v = None THEN "None" ELSE IF v = NotStr THEN "7" ELSE v

\* service_url: None, or a str given by its parts (port 0: no port in the string)
NoUrl == [kind |-> "None", scheme |-> "", host |-> "", port |-> 0, path |-> ""]
EmptyUrl == [kind |-> "str", scheme |-> "", host |-> "", port |-> 0, path |-> ""]
Url(s, h, p, q) == [kind |-> "str", scheme |-> s, host |-> h, port |-> p, path |-> q]

UrlTruthy(u) == u.kind = "str" /\ u # EmptyUrl

\* the str the parts spell
UrlStr(u) ==
    u.scheme \o "://" \o u.host
        \o (IF u.port # 0 THEN ":" \o ToString(u.port) ELSE "") \o u.path

\* parameters: a dict as its items in insertion order, or a list
Dict(items) == [kind |-> "dict", items |-> items]
NotADict == [kind |-> "list", items |-> <<>>]

IsDict(p) == p.kind = "dict"
DictTruthy(p) == Len(p.items) > 0

-----------------------------------------------------------------------------
(* Inputs of __init__ *)

HookValues == {None, HookSupplied, HookInvalid}
ConnIdValues == {None, "sap_conn"}
UrlValues == {NoUrl, EmptyUrl, Url("https", "sap.example.com", 0, "/odata/svc"),
              Url("http", "sap.example.com", 8080, "/odata/svc")}
FunctionValues == {None, "", "GetOrders", NotStr}
EntityValues == {None, "", "Customers"}
PropertyValues == {None, "", "Customers", "ToOrders"}
ParameterValues == {NotADict, Dict(<<>>), Dict(<< <<"Id", "C1">> >>),
                    Dict(<< <<"Id", "C1">>, <<"year", "2023">> >>)}

(* The stub backend *)

FailPoints == {"none", "HttpHook", "get_conn", "Client", "execute", "shape"}
StubFunctions == {"GetOrders"}              \* names client.functions resolves
StubEntitySets == {"Customers"}             \* names client.entity_sets and client.schema.entity_sets hold
StubNavigations == {"Customers", "ToOrders"}    \* navigation properties of an entity
FunctionKeys == <<"id", "total">>           \* keys of a function result record
SchemaColumns == <<"name", "city">>         \* declared properties of the entity type
EntityAttrs == {"name", "city", "__metadata"}   \* attributes of a raw entity

Backends ==
    [failAt : FailPoints,
     n : 0..MaxEntities,
     typeMethods : {{"properties"}, {"properties", "proprties"}}]

-----------------------------------------------------------------------------
(* __init__ (the messages are the source's, without its backquotes) *)

ErrSelector == "AirflowException: Either function or entity needs to be provided."
ErrServiceUrl == "AirflowException: service_url needs to be provided."
ErrParameters == "NameError: name 'parameter' is not defined"

\* the entity-or-function check of __init__
SelectorMissing(fn, prop) == ~Truthy(prop) /\ ~Truthy(fn)

\* the outcome of the three checks of __init__, in their order
Validate(fn, ent, prop, url, params) ==
    IF SelectorMissing(fn, prop) THEN ErrSelector
    ELSE IF ~UrlTruthy(url) THEN ErrServiceUrl
    ELSE IF ~IsDict(params) THEN ErrParameters
    ELSE "ok"

-----------------------------------------------------------------------------
(* execute: the state threaded through the statements of the try block *)

NoResult == [kind |-> "None", columns |-> <<>>, rows |-> <<>>]
DataFrame(cols, rows) == [kind |-> "DataFrame", columns |-> cols, rows |-> rows]

\* locals and touched fields at entry of execute
Entry(t) ==
    [step |-> None, result |-> NoResult, exc |-> NoExc, calls |-> <<>>,
     hook |-> t.http_hook, property |-> t.property, base_url |-> t.base_url,
     opened |-> 0, closed |-> 0, path |-> "none"]

Call(st, c) == [st EXCEPT !.calls = Append(@, c)]
Raise(st, msg) == [st EXCEPT !.exc = msg]
Step(st, label) == [st EXCEPT !.step = label]

ErrNoTransport == "Cannot operate without http_hook or http_conn_id."
LabelSession == "creating http session"
LabelSend == "sending request and recieving data"
LabelHeaders == "recieving headers"
LabelFrame == "creating result pandas DataFrame"

\* f"{url.scheme}://{url.host}" + f"{':' + str(url.port) if url.port else ''}"
BaseUrlOf(u) ==
    u.scheme \o "://" \o u.host \o (IF u.port # 0 THEN ":" \o ToString(u.port) ELSE "")

\* the if self.http_conn_id: statement
ResolveHook(t, b, st) ==
    IF Truthy(t.http_conn_id)
    THEN IF Truthy(st.hook) /\ IsHttpHook(st.hook)
         THEN st
         ELSE LET c == Call(st, <<"HttpHook", t.http_conn_id>>)
              IN  IF b.failAt = "HttpHook"
                  THEN Raise(c, "The conn_id " \o t.http_conn_id \o " isn't defined")
                  ELSE [c EXCEPT !.hook = HookBuilt, !.base_url = None]
    ELSE st

\* the if not self.http_hook: ... else: ... statement
RewriteBaseUrl(t, st) ==
    IF st.exc # NoExc THEN st
    ELSE IF ~Truthy(st.hook)
    THEN Raise(Step(st, LabelSession), ErrNoTransport)
    ELSE IF ~IsHttpHook(st.hook)
    THEN Raise(st, "'str' object has no attribute 'base_url'")
    ELSE [Call(st, <<"set base_url", BaseUrlOf(t.service_url)>>)
             EXCEPT !.base_url = BaseUrlOf(t.service_url)]

\* pd.DataFrame.from_dict(request['results'])
FromDict(rows) == DataFrame(IF rows = <<>> THEN <<>> ELSE FunctionKeys, rows)

\* the records a function call of the stub returns
FunctionRow(i) == [k \in {"id", "total"} |-> IF k = "id" THEN ToString(i) ELSE ToString(100 * i)]
FunctionResults(b) == [i \in 1..b.n |-> FunctionRow(i)]

\* the raw entities a navigation of the stub returns
RawEntity(i) == [a \in EntityAttrs |-> a \o ToString(i)]
RawEntities(b) == [i \in 1..b.n |-> RawEntity(i)]

Range(s) == {s[i] : i \in DOMAIN s}

\* request = request.parameter(name, value) for every item
RECURSIVE BindParameters(_, _)
BindParameters(st, items) ==
    IF items = <<>> THEN st
    ELSE BindParameters(Call(st, <<"parameter", Head(items)[1], Head(items)[2]>>), Tail(items))

\* TakesFunctionPath with the entity taking priority over the function
TakesFunctionPath_EntityFirst(t) == t.function # None /\ IsStr(t.function) /\ ~Truthy(t.entity)

\* the if self.function is not None and isinstance(self.function, str): test
TakesFunctionPath(t) == t.function # None /\ IsStr(t.function)

\* the body of the function branch
FunctionPath(t, b, st) ==
    LET s1 == Call(Step([st EXCEPT !.path = "function"],
                        "preparing data request for function " \o Fmt(t.function)),
                   <<"functions.__getattr__", t.function>>)
    IN  IF t.function \notin StubFunctions
        THEN Raise(s1, "Function " \o t.function \o " not defined")
        ELSE
    LET s2 == IF DictTruthy(t.parameters) THEN BindParameters(s1, t.parameters.items) ELSE s1
        s3 == Call(Step(s2, LabelSend), <<"execute">>)
    IN  IF b.failAt = "execute"
        THEN Raise(s3, "HTTP request failed")
        ELSE
    LET s4 == Step(s3, LabelFrame)
    IN  IF b.failAt = "shape"
        THEN Raise(s4, "'results'")
        ELSE [s4 EXCEPT !.result = FromDict(FunctionResults(b))]

\* pd.DataFrame.from_records([{col.name: d.__getattr__(col.name) for col in columns} for d in data])
FromRecords(cols, data) ==
    DataFrame(IF data = <<>> THEN <<>> ELSE cols,
              [i \in DOMAIN data |-> [c \in Range(cols) |-> data[i][c]]])

\* the if not self.property: statement of the entity branch
DefaultProperty(t, st) ==
    IF ~Truthy(st.property) THEN [st EXCEPT !.property = t.entity] ELSE st

\* the body of the entity branch
EntityPath(t, b, st) ==
    LET s0 == DefaultProperty(t, [st EXCEPT !.path = "entity"])
        s1 == Call(Step(s0, "preparing data request for entity set " \o Fmt(t.entity)),
                   <<"entity_sets.__getattr__", t.entity>>)
    IN  IF t.entity \notin StubEntitySets
        THEN Raise(s1, "EntitySet " \o t.entity \o " not defined")
        ELSE
    LET s2 == Call(Call(s1, <<"get_entity">> \o
                            [i \in DOMAIN t.parameters.items |->
                                t.parameters.items[i][1] \o "=" \o t.parameters.items[i][2]]),
                   <<"nav", s1.property>>)
    IN  IF s2.property \notin StubNavigations
        THEN Raise(s2, "Navigation property " \o s2.property \o " not defined")
        ELSE
    LET s3 == Call(Step(Call(s2, <<"get_entities">>), LabelSend), <<"execute">>)
    IN  IF b.failAt = "execute"
        THEN Raise(s3, "HTTP request failed")
        ELSE
    LET s4 == Call(Step(s3, LabelHeaders), <<"schema.entity_sets">>)
    IN  IF s4.property \notin StubEntitySets
        THEN Raise(s4, "'" \o s4.property \o "'")
        ELSE IF "proprties" \notin b.typeMethods
        THEN Raise(s4, "'EntityType' object has no attribute 'proprties'")
        ELSE
    LET s5 == Step(Call(s4, <<"entity_type.proprties">>), LabelFrame)
    IN  IF b.failAt = "shape" /\ b.n > 0
        THEN Raise(s5, "'EntityProxy' object has no attribute 'name'")
        ELSE [s5 EXCEPT !.result = FromRecords(SchemaColumns, RawEntities(b))]

\* the body of the with statement
WithBody(t, b, st) ==
    LET c == Call(st, <<"Client", UrlStr(t.service_url)>>)
    IN  IF b.failAt = "Client"
        THEN Raise(c, "Metadata request failed")
        ELSE IF TakesFunctionPath(t) THEN FunctionPath(t, b, c)
        ELSE IF Truthy(t.entity) THEN EntityPath(t, b, c)
        ELSE c

\* WithExit closing the session only when the body ended normally
WithExit_OnSuccessOnly(st) ==
    IF st.exc = NoExc THEN [Call(st, <<"sess.__exit__">>) EXCEPT !.closed = @ + 1] ELSE st

\* Session.__exit__: the session is closed however the body ended
WithExit(st) == [Call(st, <<"sess.__exit__">>) EXCEPT !.closed = @ + 1]

\* the with self.http_hook.get_conn() as sess: statement
WithSession(t, b, st) ==
    IF st.exc # NoExc THEN st
    ELSE LET c == Call(st, <<"get_conn">>)
         IN  IF b.failAt = "get_conn"
             THEN Raise(c, "Connection refused")
             ELSE WithExit(WithBody(t, b, [Call(c, <<"sess.__enter__">>) EXCEPT !.opened = @ + 1]))

\* f"Error while step \"{step_msg}\", error: {str(e)}"
ErrorMessage(step, cause) == "Error while step \"" \o Fmt(step) \o "\", error: " \o cause

\* the try block of execute
TryBlock(t, b) == WithSession(t, b, RewriteBaseUrl(t, ResolveHook(t, b, Entry(t))))

\* what one execute() did: how it ended, what it called and what it left in the task
Outcome(t, b) ==
    LET st == TryBlock(t, b)
        ok == st.exc = NoExc
    IN  [ok |-> ok,
         result |-> IF ok THEN st.result ELSE NoResult,
         step |-> IF ok THEN None ELSE st.step,
         cause |-> st.exc,
         message |-> IF ok THEN "" ELSE ErrorMessage(st.step, st.exc),
         path |-> st.path,
         calls |-> st.calls,
         opened |-> st.opened,
         closed |-> st.closed,
         pre_hook |-> t.http_hook,
         pre_property |-> t.property,
         hook |-> st.hook,
         property |-> st.property,
         base_url |-> st.base_url]

-----------------------------------------------------------------------------
(* The task as a state machine *)

Task ==
    [http_hook |-> http_hook, http_conn_id |-> http_conn_id, service_url |-> service_url,
     function |-> function, entity |-> entity, property |-> property,
     parameters |-> parameters, base_url |-> base_url]

Init ==
    /\ status = "none"
    /\ http_hook = None
    /\ http_conn_id = None
    /\ service_url = NoUrl
    /\ function = None
    /\ entity = None
    /\ property = None
    /\ parameters = Dict(<<>>)
    /\ base_url = None
    /\ open_sessions = 0
    /\ backend \in Backends
    /\ runs = <<>>

\* SAPODataOperator(http_hook=h, http_conn_id=c, service_url=u, function=f, entity=e,
\*                  property=p, parameters=q)
Construct ==
    /\ status = "none"
    /\ \E h \in HookValues, c \in ConnIdValues, u \in UrlValues, f \in FunctionValues,
          e \in EntityValues, p \in PropertyValues, q \in ParameterValues :
          /\ http_hook' = h
          /\ http_conn_id' = c
          /\ service_url' = u
          /\ function' = f
          /\ entity' = e
          /\ property' = p
          /\ parameters' = q
          /\ status' = Validate(f, e, p, u, q)
    /\ UNCHANGED <<base_url, open_sessions, backend, runs>>

\* task.execute(context), on a task __init__ returned
Execute ==
    /\ status = "ok"
    /\ Len(runs) < MaxRuns
    /\ LET r == Outcome(Task, backend)
       IN  /\ http_hook' = r.hook
           /\ property' = r.property
           /\ base_url' = r.base_url
           /\ open_sessions' = open_sessions + r.opened - r.closed
           /\ runs' = Append(runs, r)
    /\ UNCHANGED <<status, http_conn_id, service_url, function, entity, parameters, backend>>

Next == Construct \/ Execute

Spec == Init /\ [][Next]_vars

-----------------------------------------------------------------------------
(* Properties *)

HasCall(r, name) == \E j \in DOMAIN r.calls : r.calls[j][1] = name
CountCalls(r, name) == Cardinality({j \in DOMAIN r.calls : r.calls[j][1] = name})
EntityCalls == {"entity_sets.__getattr__", "get_entity", "nav", "get_entities",
                "schema.entity_sets", "entity_type.proprties"}
Constructed == status # "none"
\* function is None or a str, as documented
WellTyped == function # NotStr

\* C1: a task built with function and entity both absent or empty is rejected by
\* __init__ whatever property is, with the selector error when service_url is
\* non-empty and parameters is a dict, and so never executes.
C1_NoSelectorRejected ==
    (Constructed /\ ~Truthy(function) /\ ~Truthy(entity))
        => /\ status # "ok"
           /\ (UrlTruthy(service_url) /\ IsDict(parameters)) => status = ErrSelector
           /\ runs = <<>>

\* C2: a task built with a non-empty entity, no function and no property (non-empty
\* service_url, dict parameters) is accepted by __init__, and each execute that
\* reaches the branch takes the entity path with property set to entity.
C2_EntityOnlyConstructs ==
    (/\ Constructed
     /\ Truthy(entity) /\ function = None
     /\ (IF runs = <<>> THEN property ELSE runs[1].pre_property) = None
     /\ UrlTruthy(service_url) /\ IsDict(parameters))
        => /\ status = "ok"
           /\ \A i \in DOMAIN runs :
                /\ runs[i].path # "function"
                /\ runs[i].path = "entity" =>
                      /\ runs[i].property = entity
                      /\ <<"nav", entity>> \in Range(runs[i].calls)

\* C3: every execute that returns normally returns a DataFrame, never None
\* (stated for a function that is None or a str, the documented type).
C3_NeverReturnsNone ==
    \A i \in DOMAIN runs :
        (runs[i].ok /\ WellTyped) => runs[i].result.kind = "DataFrame"

\* C4: every session execute obtains from get_conn() is closed before execute
\* returns or raises: no session is open after any execute, and in each run the
\* last call after entering the session is its __exit__.
C4_SessionReleased ==
    /\ open_sessions = 0
    /\ \A i \in DOMAIN runs :
          /\ runs[i].opened = runs[i].closed
          /\ runs[i].opened = CountCalls(runs[i], "sess.__enter__")
          /\ runs[i].closed = CountCalls(runs[i], "sess.__exit__")
          /\ HasCall(runs[i], "sess.__enter__")
                => runs[i].calls[Len(runs[i].calls)] = <<"sess.__exit__">>

\* C4 witness: an execute that failed while shaping the result, after the request
\* was executed inside the session, and whose session was closed.
C4_Witness ==
    \E i \in DOMAIN runs :
        /\ ~runs[i].ok
        /\ runs[i].step = LabelFrame
        /\ runs[i].opened = 1
        /\ runs[i].closed = 1

\* C5: with no usable transport (http_hook absent or not an HttpHook, and no
\* http_conn_id) execute fails with the cannot-operate error before base_url is
\* rewritten and before get_conn(); with an invalid http_hook and an
\* http_conn_id whose hook can be built, the built hook is used
\* (stated for a function that is None or a str).
C5_NoTransportError ==
    \A i \in DOMAIN runs :
        /\ (runs[i].pre_hook \in {None, HookInvalid} /\ ~Truthy(http_conn_id) /\ WellTyped)
              => /\ ~runs[i].ok
                 /\ runs[i].cause = ErrNoTransport
                 /\ ~HasCall(runs[i], "set base_url")
                 /\ ~HasCall(runs[i], "get_conn")
        /\ (runs[i].pre_hook = HookInvalid /\ Truthy(http_conn_id) /\ backend.failAt # "HttpHook")
              => /\ runs[i].hook = HookBuilt
                 /\ <<"HttpHook", http_conn_id>> \in Range(runs[i].calls)
                 /\ HasCall(runs[i], "get_conn")

\* C6: an execute that fails carries a step label that is not None, and when the
\* failure is the construction of the HttpHook or get_conn() the label is
\* "creating http session"; the message holds the original error text
\* (stated for a function that is None or a str and an http_hook that is None
\* or an HttpHook).
C6_SessionStepLabel ==
    \A i \in DOMAIN runs :
        (~runs[i].ok /\ WellTyped /\ runs[i].pre_hook # HookInvalid)
            => /\ runs[i].step # None
               /\ (~HasCall(runs[i], "sess.__enter__")) => runs[i].step = LabelSession
               /\ runs[i].message = ErrorMessage(runs[i].step, runs[i].cause)

\* the calls of the function path from the lookup to the end of the with block
ExpectedFunctionCalls(f, p) ==
    << <<"functions.__getattr__", f>> >>
        \o [j \in DOMAIN p.items |-> <<"parameter", p.items[j][1], p.items[j][2]>>]
        \o << <<"execute">>, <<"sess.__exit__">> >>

Suffix(s, n) == SubSeq(s, Len(s) - n + 1, Len(s))

\* C7: when function (a str) and entity are both given, execute never makes an
\* entity-set lookup, a navigation or a schema lookup, and an execute that
\* succeeds looked the function up, bound every item of parameters in order and
\* executed the request once.
C7_FunctionHasPriority ==
    (function # None /\ IsStr(function) /\ entity # None)
        => \A i \in DOMAIN runs :
              /\ \A j \in DOMAIN runs[i].calls : runs[i].calls[j][1] \notin EntityCalls
              /\ runs[i].path # "entity"
              /\ HasCall(runs[i], "Client") /\ backend.failAt # "Client"
                    => HasCall(runs[i], "functions.__getattr__")
              /\ runs[i].ok
                    => LET exp == ExpectedFunctionCalls(function, parameters)
                       IN  /\ Len(runs[i].calls) >= Len(exp)
                           /\ Suffix(runs[i].calls, Len(exp)) = exp
                           /\ CountCalls(runs[i], "execute") = 1
                           /\ CountCalls(runs[i], "parameter") = Len(parameters.items)
                           /\ runs[i].result = FromDict(FunctionResults(backend))

\* C7 witness: a successful execute of a task with a function, a non-empty entity,
\* a property and two parameters.
C7_Witness ==
    /\ function = "GetOrders" /\ entity = "Customers" /\ property = "ToOrders"
    /\ Len(parameters.items) = 2
    /\ \E i \in DOMAIN runs : runs[i].ok /\ runs[i].path = "function"

\* C8: on the entity path, against a collaborator whose entity types expose
\* properties(), a navigation that succeeded with n entities gives a DataFrame of
\* n rows whose keys are exactly the declared properties of the entity set named
\* property; n = 0 gives an empty table.
C8_EntityRowsFollowSchema ==
    \A i \in DOMAIN runs :
        (/\ function = None /\ Truthy(entity) /\ Truthy(runs[i].pre_property)
         /\ "properties" \in backend.typeMethods
         /\ property \in StubEntitySets
         /\ HasCall(runs[i], "execute") /\ backend.failAt \notin {"execute", "shape"})
            => /\ runs[i].ok
               /\ runs[i].result.kind = "DataFrame"
               /\ Len(runs[i].result.rows) = backend.n
               /\ \A k \in DOMAIN runs[i].result.rows :
                     DOMAIN runs[i].result.rows[k] = Range(SchemaColumns)

\* C9: two executes in sequence on the same task against the same backend end
\* the same way, on the same path, after the same sequence of collaborator calls
\* (stated for a function that is None or a str).
C9_SecondRunSame ==
    (Len(runs) >= 2 /\ WellTyped)
        => /\ runs[2].ok = runs[1].ok
           /\ runs[2].result = runs[1].result
           /\ runs[2].message = runs[1].message
           /\ runs[2].path = runs[1].path
           /\ runs[2].calls = runs[1].calls

\* C10: execute leaves function, entity, property, parameters, service_url,
\* http_hook and http_conn_id of the task as they were before the call
\* (stated for a function that is None or a str).
C10_ExecuteKeepsFields ==
    [][(status = "ok" /\ WellTyped) =>
          /\ function' = function
          /\ entity' = entity
          /\ property' = property
          /\ parameters' = parameters
          /\ service_url' = service_url
          /\ http_hook' = http_hook
          /\ http_conn_id' = http_conn_id]_vars

====
